---- MODULE Spec2Model ----
(***************************************************************************)
(* A model of flowcell_manifold/part2.py: the Part2Spec dataclass with its *)
(* __post_init__ assertions, the make_part2 builder and the script entry   *)
(* point.  The geometry kernel (build123d) is opaque: a solid is the term  *)
(* of the kernel operations that produced it, and every kernel call has an *)
(* outcome (returns or raises, edge group empty or not) that is a          *)
(* deterministic but unknown function of its arguments, sampled lazily in  *)
(* the variable memo.                                                      *)
(***************************************************************************)
EXTENDS Integers, Sequences, FiniteSets, TLC

\* --------------------------------------------------------------- bounds
\* Field values offered to the constructor under SpecCreate are
\* -2, 0, 2, ..., 2 * MaxK and NaN.
MaxK == 2
\* Calls of make_part2 a client makes on one spec object.
MaxBuilds == 2
\* Field assignments a client makes on one spec object.
MaxAssign == 1

\* --------------------------------------------------------------- floats
\* The float that compares false with everything (fields are annotated float).
NaN == -999

Vals == {-2} \cup {2 * k : k \in 0..MaxK} \cup {NaN}

\* Python's a > b, a >= b, a < b on floats.
Gt(a, b) == a # NaN /\ b # NaN /\ a > b
Ge(a, b) == a # NaN /\ b # NaN /\ a >= b
Lt(a, b) == a # NaN /\ b # NaN /\ a < b

\* Python's builtin min(a, b): the first argument unless the second is smaller.
PyMin(a, b) == IF Lt(b, a) THEN b ELSE a

\* spec.hole_diameter / 2 (exact: the values of the model are even, or 22).
Half(x) == IF x = NaN THEN NaN ELSE x \div 2

Fields ==
    {"length", "width", "thickness", "hole_diameter", "chamfer_distance", "fillet_radius"}

\* The field defaults of the dataclass.
Defaults ==
    [length |-> 80, width |-> 60, thickness |-> 10,
     hole_diameter |-> 22, chamfer_distance |-> 2, fillet_radius |-> 5]

\* One float of each class the comparisons of the module tell apart: negative,
\* zero, two positive values (a hole smaller than the plate needs two) and NaN.
\* A client's constructor inputs under Spec are these.
Reps == {-2, 0, 2, 4, NaN}

\* The values a client assigns to a field of an existing object: with them an
\* assignment can keep a valid spec valid (chamfer_distance = 0 or 2) and can
\* break each constraint (length = 0, hole_diameter = 0, length = 2 <= hole).
AssignVals == {0, 2}

SpecValues(V) ==
    [length : V, width : V, thickness : V,
     hole_diameter : V, chamfer_distance : V, fillet_radius : V]

\* --------------------------------------------------------------- state
VARIABLES
    mode,            \* "main": the script entry point; "client": a caller of the module
    pc,              \* position of the single thread of control
    args,            \* the six inputs given to Part2Spec(...)
    self,            \* the object under construction inside __init__/__post_init__
    vi,              \* index of the next assert of __post_init__
    evaluated,       \* the constraints whose assert expression has been evaluated
    error,           \* message of the AssertionError raised, "" when none
    spec,            \* the constructed object the caller holds: <<>> or <<record>>
    nAssign,         \* field assignments made on the object
    spec_in,         \* value of the spec when the running build was entered
    p,               \* make_part2's local p: the solid term, <<>> when unbound
    bottom_edges,    \* make_part2's local bottom_edges: <<>> or <<group>>
    top_edges,       \* make_part2's local top_edges: <<>> or <<group>>
    chamfer_step,    \* "pending", "applied" or "skipped" in the running build
    fillet_step,     \* "pending", "applied" or "skipped" in the running build
    calls,           \* kernel operations invoked by the running build, in order
    results,         \* completed builds of a client: [spec_in, spec_out, calls, part]
    part2,           \* the entry point's part2: <<>> until make_part2 has returned
    memo,            \* the kernel's outcomes sampled so far
    viewer_classes,  \* the entry point's viewer_classes
    running,         \* what viewer_running() returned: "unknown", "yes", "no"
    events,          \* calls the entry point has made, in order
    exported,        \* export_part has returned
    log,             \* messages logged, in order
    raised,          \* the calls that have raised an exception
    abort            \* what ended the run with an uncaught exception, "" when none

vars ==
    <<mode, pc, args, self, vi, evaluated, error, spec, nAssign, spec_in, p,
      bottom_edges, top_edges, chamfer_step, fillet_step, calls, results, part2,
      memo, viewer_classes, running, events, exported, log, raised, abort>>

buildVars == <<spec_in, p, bottom_edges, top_edges, chamfer_step, fillet_step, calls, memo>>
mainVars == <<viewer_classes, running, events, exported, log, part2>>

NoError == ""

\* The state before the first statement: of the script (mode "main", which
\* passes no argument, so the inputs are the defaults) or of a client that
\* constructs a spec from inputs in V.
InitWith(modes, V) ==
    /\ mode \in modes
    /\ args \in IF mode = "main" THEN {Defaults} ELSE SpecValues(V)
    /\ pc = IF mode = "main" THEN "m_setup" ELSE "new_spec"
    /\ self = <<>>
    /\ vi = 1
    /\ evaluated = <<>>
    /\ error = NoError
    /\ spec = <<>>
    /\ nAssign = 0
    /\ spec_in = <<>>
    /\ p = <<>>
    /\ bottom_edges = <<>>
    /\ top_edges = <<>>
    /\ chamfer_step = "pending"
    /\ fillet_step = "pending"
    /\ calls = <<>>
    /\ results = <<>>
    /\ part2 = <<>>
    /\ memo = {}
    /\ viewer_classes = "unbound"
    /\ running = "unknown"
    /\ events = <<>>
    /\ exported = FALSE
    /\ log = <<>>
    /\ raised = {}
    /\ abort = ""

Init == InitWith({"main", "client"}, Reps)

\* A caller that only constructs a spec, from the wider input set.
InitCreate == InitWith({"client"}, Vals)

\* ------------------------------------------------- Part2Spec (lines 20-42)
\* The assert expressions of __post_init__, one per constraint.
LengthOk(s) == Gt(s.length, 0)
WidthOk(s) == Gt(s.width, 0)

\* A faulty variant: a thickness of zero is let through.
ThicknessOkLoose(s) == Ge(s.thickness, 0)
ThicknessOk(s) == Gt(s.thickness, 0)

\* A faulty variant: a hole as wide as the plate is let through.
HoleOkInclusive(s) ==
    Lt(0, s.hole_diameter) /\ ~Gt(s.hole_diameter, PyMin(s.length, s.width))
\* Python's chained comparison 0 < h < m is (0 < h) and (h < m).
HoleOk(s) ==
    Lt(0, s.hole_diameter) /\ Lt(s.hole_diameter, PyMin(s.length, s.width))

ChamferOk(s) == Ge(s.chamfer_distance, 0)
FilletOk(s) == Ge(s.fillet_radius, 0)

\* A faulty variant: chamfer_distance is validated before hole_diameter.
ChecksChamferFirst ==
    <<"length", "width", "thickness", "chamfer_distance", "hole_diameter", "fillet_radius">>
\* The asserts in the order __post_init__ executes them.
Checks ==
    <<"length", "width", "thickness", "hole_diameter", "chamfer_distance", "fillet_radius">>

CheckHolds(c, s) ==
    CASE c = "length" -> LengthOk(s)
      [] c = "width" -> WidthOk(s)
      [] c = "thickness" -> ThicknessOk(s)
      [] c = "hole_diameter" -> HoleOk(s)
      [] c = "chamfer_distance" -> ChamferOk(s)
      [] c = "fillet_radius" -> FilletOk(s)

\* The message of each assert.
Message(c) ==
    CASE c = "length" -> "length must be positive"
      [] c = "width" -> "width must be positive"
      [] c = "thickness" -> "thickness must be positive"
      [] c = "hole_diameter" ->
            "hole_diameter must be positive and smaller than plate dimensions"
      [] c = "chamfer_distance" -> "chamfer_distance must be non-negative"
      [] c = "fillet_radius" -> "fillet_radius must be non-negative"

\* A faulty variant: the assert statements do nothing (as when compiled out).
AssertStripped(ok) == FALSE
\* assert e, msg raises AssertionError(msg) when e is false; nothing in the
\* module catches it.
AssertRaises(ok) == ~ok

\* Part2Spec(...): the generated __init__ binds the six fields, then calls
\* __post_init__.
CallPart2Spec ==
    /\ pc = "new_spec"
    /\ self' = <<args>>
    /\ vi' = 1
    /\ pc' = "post_init"
    /\ events' = IF mode = "main" THEN Append(events, "Part2Spec") ELSE events
    /\ UNCHANGED <<mode, args, evaluated, error, spec, nAssign, results, abort, raised>>
    /\ UNCHANGED buildVars
    /\ UNCHANGED <<viewer_classes, running, exported, log, part2>>

\* One assert statement of __post_init__.  After the last one __post_init__ and
\* __init__ return and the caller binds the object.
PostInitAssert ==
    /\ pc = "post_init"
    /\ LET c == Checks[vi] IN
        /\ evaluated' = Append(evaluated, c)
        /\ IF AssertRaises(CheckHolds(c, self[1]))
           THEN /\ error' = Message(c)
                /\ abort' = "AssertionError"
                /\ raised' = raised \cup {"Part2Spec"}
                /\ pc' = "aborted"
                /\ UNCHANGED <<spec, vi>>
           ELSE /\ UNCHANGED <<error, abort, raised>>
                /\ IF vi = Len(Checks)
                   THEN /\ spec' = self
                        /\ pc' = IF mode = "main" THEN "m_build" ELSE "c_idle"
                        /\ vi' = vi
                   ELSE /\ spec' = spec
                        /\ pc' = "post_init"
                        /\ vi' = vi + 1
    /\ UNCHANGED <<mode, args, self, nAssign, results>>
    /\ UNCHANGED buildVars
    /\ UNCHANGED mainVars

\* The dataclass is not frozen: object.field = value rebinds the field and runs
\* no validation.  Only a client does this; make_part2 and the entry point never
\* assign to a field.
AssignField ==
    /\ pc = "c_idle"
    /\ nAssign < MaxAssign
    /\ \E f \in Fields, v \in AssignVals :
        spec' = <<[spec[1] EXCEPT ![f] = v]>>
    /\ nAssign' = nAssign + 1
    /\ UNCHANGED <<mode, pc, args, self, vi, evaluated, error, results, abort, raised>>
    /\ UNCHANGED buildVars
    /\ UNCHANGED mainVars

\* ------------------------------------------------ the kernel (build123d)
\* A kernel call: the operation, the edge selection it was given ("first" for
\* group_by(Axis.Z)[0], "last" for [-1], "" otherwise) and its numeric arguments.
Call(op, sel, x, y, z) == [op |-> op, sel |-> sel, x |-> x, y |-> y, z |-> z]

\* What a kernel call can do: return or raise; edges().group_by(Axis.Z)[i]
\* raises IndexError when there is no group, else returns a group that is
\* empty or holds edges.
Outcomes(op) ==
    IF op = "group_by" THEN {"IndexError", "empty", "edges"} ELSE {"ok", "raise"}

\* The kernel is a function of the solid it is applied to and of the call: an
\* outcome seen once for a key is the outcome of every later call with that key.
Key(solid, call) == [solid |-> solid, call |-> call]
Allowed(m, key) ==
    IF \E e \in m : e.key = key
    THEN {e.out : e \in {x \in m : x.key = key}}
    ELSE Outcomes(key.call.op)
Sampled(m, key, out) == m \cup {[key |-> key, out |-> out]}

\* ------------------------------------------------ make_part2 (lines 45-105)
\* A faulty variant: the hole is cut before the box is added.
StmtOrderCutFirst(stmt) ==
    CASE stmt = "mp_part" -> "mp_cut"
      [] stmt = "mp_cut" -> "mp_box"
      [] stmt = "mp_box" -> "mp_bottom"
      [] stmt = "mp_bottom" -> "mp_chamfer"
      [] stmt = "mp_chamfer" -> "mp_top"
      [] stmt = "mp_top" -> "mp_fillet"
      [] stmt = "mp_fillet" -> "mp_return"
\* The statement that follows each statement of make_part2.
After(stmt) ==
    CASE stmt = "mp_part" -> "mp_box"
      [] stmt = "mp_box" -> "mp_cut"
      [] stmt = "mp_cut" -> "mp_bottom"
      [] stmt = "mp_bottom" -> "mp_chamfer"
      [] stmt = "mp_chamfer" -> "mp_top"
      [] stmt = "mp_top" -> "mp_fillet"
      [] stmt = "mp_fillet" -> "mp_return"

\* A faulty variant: the builder swallows the exception and returns p as it is.
KernelRaiseSwallowed ==
    /\ pc' = "mp_return"
    /\ UNCHANGED <<abort, part2, results>>
\* make_part2 has no try/except: an exception of a kernel call leaves it, and
\* neither the entry point nor a client's build is continued.
KernelRaise ==
    /\ pc' = "aborted"
    /\ abort' = "KernelError"
    /\ UNCHANGED <<part2, results>>

\* A faulty variant: the canvas is kept between builds instead of made anew.
CanvasReused ==
    IF results = <<>> THEN <<Call("Part", "", 0, 0, 0)>> ELSE results[Len(results)].part
\* bd.Part(None): the empty solid.
EmptyPart == <<Call("Part", "", 0, 0, 0)>>

NonEmpty(edges) == edges # <<>> /\ edges[1].n > 0

\* A faulty variant: the guard tests the edge group only.
ChamferGuardNoZeroTest(s, edges) == NonEmpty(edges)
\* spec.chamfer_distance > 0 and bottom_edges
ChamferGuard(s, edges) == Gt(s.chamfer_distance, 0) /\ NonEmpty(edges)

\* spec.fillet_radius > 0 and top_edges
FilletGuard(s, edges) == Gt(s.fillet_radius, 0) /\ NonEmpty(edges)

buildFrame == <<mode, args, self, vi, evaluated, error, spec, nAssign, spec_in>>
buildMain == <<viewer_classes, running, events, exported, log>>

\* make_part2(spec) is entered: by a client holding a spec object, or at line 122.
CallMakePart2 ==
    /\ \/ pc = "c_idle" /\ Len(results) < MaxBuilds
       \/ pc = "m_build"
    /\ pc' = "mp_part"
    /\ spec_in' = spec
    /\ p' = <<>>
    /\ bottom_edges' = <<>>
    /\ top_edges' = <<>>
    /\ chamfer_step' = "pending"
    /\ fillet_step' = "pending"
    /\ calls' = <<>>
    /\ events' = IF mode = "main" THEN Append(events, "make_part2") ELSE events
    /\ UNCHANGED <<mode, args, self, vi, evaluated, error, spec, nAssign, results,
                   part2, memo, viewer_classes, running, exported, log, raised, abort>>

\* Line 57: p = bd.Part(None)
MkEmptyPart ==
    /\ pc = "mp_part"
    /\ p' = EmptyPart
    /\ calls' = Append(calls, Call("Part", "", 0, 0, 0))
    /\ pc' = After("mp_part")
    /\ UNCHANGED <<bottom_edges, top_edges, chamfer_step, fillet_step, memo,
                   abort, part2, results, raised>>
    /\ UNCHANGED buildFrame
    /\ UNCHANGED buildMain

\* A statement "p op= Primitive(...)": the primitive is made, then combined with p.
Combine(stmt, prim, bool) ==
    /\ pc = stmt
    /\ \E o1 \in Allowed(memo, Key(p, prim)) :
        IF o1 = "raise"
        THEN /\ calls' = Append(calls, prim)
             /\ memo' = Sampled(memo, Key(p, prim), o1)
             /\ p' = p
             /\ raised' = raised \cup {prim.op}
             /\ KernelRaise
        ELSE \E o2 \in Allowed(memo, Key(p, bool)) :
             /\ calls' = calls \o <<prim, bool>>
             /\ memo' = Sampled(Sampled(memo, Key(p, prim), o1), Key(p, bool), o2)
             /\ IF o2 = "raise"
                THEN /\ p' = p
                     /\ raised' = raised \cup {bool.op}
                     /\ KernelRaise
                ELSE /\ p' = Append(p, bool)
                     /\ pc' = After(stmt)
                     /\ UNCHANGED <<abort, part2, results, raised>>
    /\ UNCHANGED <<bottom_edges, top_edges, chamfer_step, fillet_step>>
    /\ UNCHANGED buildFrame
    /\ UNCHANGED buildMain

\* Line 65: p += bd.Box(spec.length, spec.width, spec.thickness)
AddBox ==
    LET s == spec[1] IN
    Combine("mp_box",
            Call("Box", "", s.length, s.width, s.thickness),
            Call("add", "", s.length, s.width, s.thickness))

\* Line 76: p -= bd.Cylinder(radius=spec.hole_diameter / 2, height=spec.thickness)
CutHole ==
    LET s == spec[1] IN
    Combine("mp_cut",
            Call("Cylinder", "", Half(s.hole_diameter), s.thickness, 0),
            Call("sub", "", Half(s.hole_diameter), s.thickness, 0))

\* p.edges().group_by(bd.Axis.Z)[i], bound to a local.
GroupEdges(stmt, sel) ==
    /\ pc = stmt
    /\ LET call == Call("group_by", sel, 0, 0, 0) IN
       \E o \in Allowed(memo, Key(p, call)) :
        /\ calls' = Append(calls, call)
        /\ memo' = Sampled(memo, Key(p, call), o)
        /\ IF o = "IndexError"
           THEN /\ KernelRaise
                /\ raised' = raised \cup {call.op}
                /\ UNCHANGED <<bottom_edges, top_edges>>
           ELSE /\ LET g == <<[sel |-> sel, n |-> IF o = "edges" THEN 1 ELSE 0]>> IN
                    IF sel = "first"
                    THEN bottom_edges' = g /\ top_edges' = top_edges
                    ELSE top_edges' = g /\ bottom_edges' = bottom_edges
                /\ pc' = After(stmt)
                /\ UNCHANGED <<abort, part2, results, raised>>
    /\ UNCHANGED <<p, chamfer_step, fillet_step>>
    /\ UNCHANGED buildFrame
    /\ UNCHANGED buildMain

\* Line 85: bottom_edges = p.edges().group_by(bd.Axis.Z)[0]
GroupBottom == GroupEdges("mp_bottom", "first")

\* Line 99: top_edges = p.edges().group_by(bd.Axis.Z)[-1]
GroupTop == GroupEdges("mp_top", "last")

\* Lines 86-88: if spec.chamfer_distance > 0 and bottom_edges:
\*                  p = bd.chamfer(bottom_edges, length=spec.chamfer_distance)
Chamfer ==
    /\ pc = "mp_chamfer"
    /\ IF ChamferGuard(spec[1], bottom_edges)
       THEN LET call == Call("chamfer", bottom_edges[1].sel, spec[1].chamfer_distance, 0, 0) IN
            \E o \in Allowed(memo, Key(p, call)) :
             /\ calls' = Append(calls, call)
             /\ memo' = Sampled(memo, Key(p, call), o)
             /\ IF o = "raise"
                THEN /\ KernelRaise
                     /\ raised' = raised \cup {call.op}
                     /\ UNCHANGED <<p, chamfer_step>>
                ELSE /\ p' = Append(p, call)
                     /\ chamfer_step' = "applied"
                     /\ pc' = After("mp_chamfer")
                     /\ UNCHANGED <<abort, part2, results, raised>>
       ELSE /\ chamfer_step' = "skipped"
            /\ pc' = After("mp_chamfer")
            /\ UNCHANGED <<p, calls, memo, abort, part2, results, raised>>
    /\ UNCHANGED <<bottom_edges, top_edges, fillet_step>>
    /\ UNCHANGED buildFrame
    /\ UNCHANGED buildMain

\* Lines 100-102: if spec.fillet_radius > 0 and top_edges:
\*                    p = bd.fillet(top_edges, radius=spec.fillet_radius)
Fillet ==
    /\ pc = "mp_fillet"
    /\ IF FilletGuard(spec[1], top_edges)
       THEN LET call == Call("fillet", top_edges[1].sel, spec[1].fillet_radius, 0, 0) IN
            \E o \in Allowed(memo, Key(p, call)) :
             /\ calls' = Append(calls, call)
             /\ memo' = Sampled(memo, Key(p, call), o)
             /\ IF o = "raise"
                THEN /\ KernelRaise
                     /\ raised' = raised \cup {call.op}
                     /\ UNCHANGED <<p, fillet_step>>
                ELSE /\ p' = Append(p, call)
                     /\ fillet_step' = "applied"
                     /\ pc' = After("mp_fillet")
                     /\ UNCHANGED <<abort, part2, results, raised>>
       ELSE /\ fillet_step' = "skipped"
            /\ pc' = After("mp_fillet")
            /\ UNCHANGED <<p, calls, memo, abort, part2, results, raised>>
    /\ UNCHANGED <<bottom_edges, top_edges, chamfer_step>>
    /\ UNCHANGED buildFrame
    /\ UNCHANGED buildMain

\* Line 105: return p.  The entry point binds it to part2 (line 122); a client
\* gets it as the result of its call.
ReturnPart ==
    /\ pc = "mp_return"
    /\ IF mode = "main"
       THEN /\ part2' = p
            /\ pc' = "m_viewer"
            /\ results' = results
       ELSE /\ results' = Append(results,
                    [spec_in |-> spec_in, spec_out |-> spec, calls |-> calls, part |-> p])
            /\ pc' = "c_idle"
            /\ part2' = part2
    /\ UNCHANGED <<p, bottom_edges, top_edges, chamfer_step, fillet_step, calls, memo,
                   abort, raised>>
    /\ UNCHANGED buildFrame
    /\ UNCHANGED buildMain

\* ------------------------------------------- entry point (lines 110-142)
\* The helpers the entry point imports from flowcell_manifold.utils, and show:
\* a call of setup_viewer, show, export_part or debug_show_locals, and the mkdir
\* of the export directory, returns (TRUE) or raises an Exception (FALSE).
CallReturns == BOOLEAN
\* viewer_running() tells whether a running viewer session is detected.
ViewerDetected == BOOLEAN

Logged(level, msg) == Append(log, [level |-> level, msg |-> msg])

ctorBuild == <<args, self, vi, evaluated, error, spec, nAssign, results>>

\* Lines 116-118: except Exception: logger.warning(...); viewer_classes = ()
SetupFailure ==
    /\ log' = Append(Logged("info", "Generating part2 geometry..."),
                     [level |-> "warning", msg |-> "Viewer setup failed"])
    /\ viewer_classes' = "()"
    /\ pc' = "new_spec"
    /\ UNCHANGED abort

\* Lines 111-118: logger.info(...); try: viewer_classes = setup_viewer() ...
SetupViewer ==
    /\ pc = "m_setup"
    /\ events' = Append(events, "setup_viewer")
    /\ \E ok \in CallReturns :
        IF ok
        THEN /\ viewer_classes' = "classes"
             /\ log' = Logged("info", "Generating part2 geometry...")
             /\ pc' = "new_spec"
             /\ UNCHANGED <<abort, raised>>
        ELSE /\ raised' = raised \cup {"setup_viewer"}
             /\ SetupFailure
    /\ UNCHANGED <<mode, running, exported, part2>>
    /\ UNCHANGED ctorBuild
    /\ UNCHANGED buildVars

\* A faulty variant: the part is shown whether or not a viewer is running.
ShowAlways(r) == TRUE
\* Line 125: if viewer_running():
ShowGuard(r) == r

\* Lines 125, 130-131: the viewer session is looked for; without one the show is
\* skipped and that is logged.
ViewerRunning ==
    /\ pc = "m_viewer"
    /\ events' = Append(events, "viewer_running")
    /\ \E r \in ViewerDetected :
        /\ running' = IF r THEN "yes" ELSE "no"
        /\ IF ShowGuard(r)
           THEN pc' = "m_show" /\ log' = log
           ELSE /\ pc' = "m_export_dir"
                /\ log' = Logged("info", "Viewer not running - skipping live show.")
    /\ UNCHANGED <<mode, viewer_classes, exported, part2, abort, raised>>
    /\ UNCHANGED ctorBuild
    /\ UNCHANGED buildVars

\* A faulty variant: show(part2) is called outside any try.
ShowFailureUncaught ==
    /\ pc' = "aborted"
    /\ abort' = "show"
    /\ UNCHANGED log
\* Lines 128-129: except Exception: logger.error(...)
ShowFailure ==
    /\ log' = Logged("error", "Failed to show part in viewer")
    /\ pc' = "m_export_dir"
    /\ UNCHANGED abort

\* Lines 126-129: try: show(part2) ...
Show ==
    /\ pc = "m_show"
    /\ events' = Append(events, "show")
    /\ \E ok \in CallReturns :
        IF ok
        THEN pc' = "m_export_dir" /\ UNCHANGED <<log, abort, raised>>
        ELSE raised' = raised \cup {"show"} /\ ShowFailure
    /\ UNCHANGED <<mode, viewer_classes, running, exported, part2>>
    /\ UNCHANGED ctorBuild
    /\ UNCHANGED buildVars

\* Lines 134-135: export_folder = ...; export_folder.mkdir(exist_ok=True).
\* An OSError of mkdir is not caught.
MakeExportDir ==
    /\ pc = "m_export_dir"
    /\ events' = Append(events, "mkdir")
    /\ \E ok \in CallReturns :
        IF ok
        THEN pc' = "m_export" /\ UNCHANGED <<abort, raised>>
        ELSE pc' = "aborted" /\ abort' = "OSError" /\ raised' = raised \cup {"mkdir"}
    /\ UNCHANGED <<mode, viewer_classes, running, exported, part2, log>>
    /\ UNCHANGED ctorBuild
    /\ UNCHANGED buildVars

\* Line 136: export_part(part2, "part2", export_folder).  An exception of the
\* exporter is not caught.
ExportPart ==
    /\ pc = "m_export"
    /\ events' = Append(events, "export_part")
    /\ \E ok \in CallReturns :
        IF ok
        THEN exported' = TRUE /\ pc' = "m_dump" /\ UNCHANGED <<abort, raised>>
        ELSE /\ exported' = exported
             /\ pc' = "aborted"
             /\ abort' = "ExportError"
             /\ raised' = raised \cup {"export_part"}
    /\ UNCHANGED <<mode, viewer_classes, running, part2, log>>
    /\ UNCHANGED ctorBuild
    /\ UNCHANGED buildVars

\* Lines 139-142: try: debug_show_locals(viewer_classes)
\*                except Exception: logger.warning(...)
DebugShowLocals ==
    /\ pc = "m_dump"
    /\ events' = Append(events, "debug_show_locals")
    /\ \E ok \in CallReturns :
        IF ok
        THEN UNCHANGED <<log, raised>>
        ELSE /\ log' = Logged("warning", "debug_show_locals failed")
             /\ raised' = raised \cup {"debug_show_locals"}
    /\ pc' = "done"
    /\ UNCHANGED <<mode, viewer_classes, running, exported, part2, abort>>
    /\ UNCHANGED ctorBuild
    /\ UNCHANGED buildVars

\* The steps of the module.  Line 121, spec = Part2Spec(), is CallPart2Spec at
\* pc = "new_spec", which the entry point reaches after SetupViewer.
Next ==
    \/ CallPart2Spec
    \/ PostInitAssert
    \/ AssignField
    \/ CallMakePart2
    \/ MkEmptyPart
    \/ AddBox
    \/ CutHole
    \/ GroupBottom
    \/ Chamfer
    \/ GroupTop
    \/ Fillet
    \/ ReturnPart
    \/ SetupViewer
    \/ ViewerRunning
    \/ Show
    \/ MakeExportDir
    \/ ExportPart
    \/ DebugShowLocals

Spec == Init /\ [][Next]_vars

\* Construction alone.
NextCreate ==
    \/ CallPart2Spec
    \/ PostInitAssert

SpecCreate == InitCreate /\ [][NextCreate]_vars

\* =================================================================
\* Properties.
\* =================================================================
\* The six constraints as the data model states them, on real numbers: a NaN
\* satisfies none.
Num(x) == x # NaN
Smaller(a, b) == IF a < b THEN a ELSE b
Satisfies(f, a) ==
    CASE f = "length" -> Num(a.length) /\ a.length > 0
      [] f = "width" -> Num(a.width) /\ a.width > 0
      [] f = "thickness" -> Num(a.thickness) /\ a.thickness > 0
      [] f = "hole_diameter" ->
            /\ Num(a.hole_diameter) /\ Num(a.length) /\ Num(a.width)
            /\ 0 < a.hole_diameter
            /\ a.hole_diameter < Smaller(a.length, a.width)
      [] f = "chamfer_distance" -> Num(a.chamfer_distance) /\ a.chamfer_distance >= 0
      [] f = "fillet_radius" -> Num(a.fillet_radius) /\ a.fillet_radius >= 0
SixConstraints(a) == \A f \in Fields : Satisfies(f, a)

Constructed == pc \notin {"new_spec", "post_init", "m_setup"}

\* C1: creating a spec succeeds if and only if the six inputs satisfy the six
\* constraints (a hole_diameter equal to min(length, width) fails); on success
\* the record holds exactly the inputs, on failure no record is exposed, and
\* none is exposed before construction has finished.
C1_CreateSucceedsIffValid ==
    /\ ~Constructed => spec = <<>>
    /\ Constructed =>
        /\ (spec # <<>>) <=> SixConstraints(args)
        /\ (pc = "aborted") <=> ~SixConstraints(args)
        /\ spec # <<>> => spec = <<args>> /\ error = NoError
        /\ pc = "aborted" => spec = <<>> /\ error # NoError
        /\ (Num(args.length) /\ Num(args.width)
              /\ args.hole_diameter = Smaller(args.length, args.width)) => spec = <<>>

\* A spec was created whose hole_diameter is just below min(length, width).
C1_Witness ==
    /\ pc = "c_idle"
    /\ spec = <<args>>
    /\ args.hole_diameter + 2 = Smaller(args.length, args.width)

\* The order in which the constraints are validated, as specified.
ValidationOrder ==
    <<"length", "width", "thickness", "hole_diameter", "chamfer_distance", "fillet_radius">>
Violated(a) == {i \in 1..Len(ValidationOrder) : ~Satisfies(ValidationOrder[i], a)}
FirstViolated(a) == CHOOSE i \in Violated(a) : \A j \in Violated(a) : i <= j

\* The field an error message names: the identifier the message starts with.
FieldNamedBy(msg) ==
    CASE msg = "length must be positive" -> "length"
      [] msg = "width must be positive" -> "width"
      [] msg = "thickness must be positive" -> "thickness"
      [] msg = "hole_diameter must be positive and smaller than plate dimensions" ->
            "hole_diameter"
      [] msg = "chamfer_distance must be non-negative" -> "chamfer_distance"
      [] msg = "fillet_radius must be non-negative" -> "fillet_radius"
      [] OTHER -> "?"

\* C2: the one error reported is that of the first violated constraint in the
\* fixed order and names its field; the constraints are evaluated in that order
\* and none is evaluated after the first failure.
C2_FirstViolationReported ==
    /\ evaluated = SubSeq(ValidationOrder, 1, Len(evaluated))
    /\ error # NoError =>
        /\ Violated(args) # {}
        /\ FieldNamedBy(error) = ValidationOrder[FirstViolated(args)]
        /\ Len(evaluated) = FirstViolated(args)
        /\ raised = {"Part2Spec"}
    /\ (Constructed /\ Violated(args) # {}) => error # NoError

\* Creation failed on inputs that violate at least two constraints, the second
\* of them later in the order than the one reported.
C2_Witness ==
    /\ error # NoError
    /\ Cardinality(Violated(args)) >= 2
    /\ FieldNamedBy(error) = "hole_diameter"
    /\ ~Satisfies("chamfer_distance", args)

NoKernelCall == calls = <<>> /\ memo = {} /\ p = <<>> /\ part2 = <<>> /\ results = <<>>

\* C4: in a run whose constructor inputs violate a constraint, creation fails
\* and no kernel operation is ever invoked.
C4_NoKernelCallWhenInvalid ==
    /\ ~SixConstraints(args) => NoKernelCall
    /\ (~SixConstraints(args) /\ Constructed) => pc = "aborted" /\ error # NoError
    /\ error # NoError => NoKernelCall /\ pc = "aborted"

\* Creation has failed on a hole_diameter that is not positive.
C4_Witness ==
    /\ pc = "aborted"
    /\ FieldNamedBy(error) = "hole_diameter"
    /\ args.hole_diameter <= 0

ViewerSteps == {"setup_viewer", "show", "debug_show_locals"}
InEvents(e) == \E i \in DOMAIN events : events[i] = e
IsLogged(level, msg) == \E i \in DOMAIN log : log[i] = [level |-> level, msg |-> msg]

\* C5: a failure of viewer setup, of the display or of the debug dump is caught
\* and logged and never ends the run; a run of the entry point that has built
\* the part and has ended has entered the export step (lines 134-136), has
\* called export_part unless creating the export directory raised, and has
\* exported the part if nothing but viewer-side steps failed.
C5_ViewerFailuresNeverAbortExport ==
    /\ abort \notin ViewerSteps
    /\ "setup_viewer" \in raised =>
          IsLogged("warning", "Viewer setup failed") /\ viewer_classes = "()"
    /\ "show" \in raised => IsLogged("error", "Failed to show part in viewer")
    /\ "debug_show_locals" \in raised => IsLogged("warning", "debug_show_locals failed")
    /\ (raised \cap ViewerSteps # {} /\ raised \subseteq ViewerSteps) => pc # "aborted"
    /\ (mode = "main" /\ part2 # <<>> /\ pc \in {"done", "aborted"}) =>
        /\ InEvents("mkdir")
        /\ "mkdir" \notin raised => InEvents("export_part")
        /\ raised \subseteq ViewerSteps => exported /\ pc = "done"

\* All three viewer-side steps failed and the part was exported.
C5_Witness ==
    /\ pc = "done"
    /\ raised = ViewerSteps
    /\ exported

KernelOps == {"Box", "add", "Cylinder", "sub", "group_by", "chamfer", "fillet"}

\* C6: once a kernel call of the builder has raised, the run is over: no
\* further kernel call is made (the call that raised is the last one), the
\* builder returns no solid for that build, and the entry point neither
\* displays nor exports.
C6_KernelFailureIsFatal ==
    raised \cap KernelOps # {} =>
        /\ pc = "aborted"
        /\ abort = "KernelError"
        /\ calls # <<>>
        /\ raised = {calls[Len(calls)].op} \/ raised = {calls[Len(calls)].op, "setup_viewer"}
        /\ part2 = <<>>
        /\ ~exported
        /\ \A e \in {"viewer_running", "show", "mkdir", "export_part", "debug_show_locals"} :
              ~InEvents(e)

\* The chamfer call raised in the entry point's build.
C6_Witness ==
    /\ mode = "main"
    /\ "chamfer" \in raised
    /\ pc = "aborted"

\* The place of each kernel operation in the fixed order of one build.
Rank(call) ==
    CASE call.op = "Part" -> 1
      [] call.op = "Box" -> 2
      [] call.op = "add" -> 3
      [] call.op = "Cylinder" -> 4
      [] call.op = "sub" -> 5
      [] call.op = "group_by" /\ call.sel = "first" -> 6
      [] call.op = "chamfer" -> 7
      [] call.op = "group_by" /\ call.sel = "last" -> 8
      [] call.op = "fillet" -> 9
      [] OTHER -> 0
\* The operations no build skips: all but chamfer and fillet.  A sequence of
\* calls is in order when the ranks rise strictly (so no operation is invoked
\* twice) and no operation that cannot be skipped is passed over.
Unskippable == {1, 2, 3, 4, 5, 6, 8}
InOrder(cs) ==
    LET rk == [i \in 0..Len(cs) |-> IF i = 0 THEN 0 ELSE Rank(cs[i])] IN
    \A i \in DOMAIN cs :
        /\ rk[i - 1] < rk[i]
        /\ \A r \in Unskippable : ~(rk[i - 1] < r /\ r < rk[i])
        /\ cs[i].op = "chamfer" => cs[i].sel = "first"
        /\ cs[i].op = "fillet" => cs[i].sel = "last"
HasOp(cs, op) == \E i \in DOMAIN cs : cs[i].op = op

\* C7: one build invokes the kernel in the order empty solid, box and union,
\* cylinder and subtraction, chamfer of the bottom edges, fillet of the top
\* edges, each at most once; the fillet is invoked only once the chamfer step
\* has been applied or skipped.  (calls is the log of the build that is running
\* or has last returned or failed, so every build is covered.)
C7_FixedOrderOnce ==
    /\ InOrder(calls)
    /\ HasOp(calls, "fillet") => chamfer_step \in {"applied", "skipped"}
    /\ HasOp(calls, "chamfer") => HasOp(calls, "sub") /\ Len(p) >= 3
    /\ HasOp(calls, "sub") => HasOp(calls, "add")

\* A build of a valid spec has returned with chamfer and fillet both applied.
C7_Witness ==
    /\ pc \in {"c_idle", "m_viewer"}
    /\ spec_in # <<>>
    /\ SixConstraints(spec_in[1])
    /\ chamfer_step = "applied"
    /\ fillet_step = "applied"
    /\ Len(calls) = 9

\* The solid the pipeline returns for spec s when the chamfer step and the fillet
\* step are carried out as told.
Pipeline(s, withChamfer, withFillet) ==
    <<Call("Part", "", 0, 0, 0),
      Call("add", "", s.length, s.width, s.thickness),
      Call("sub", "", IF Num(s.hole_diameter) THEN s.hole_diameter \div 2 ELSE NaN,
           s.thickness, 0)>>
    \o (IF withChamfer THEN <<Call("chamfer", "first", s.chamfer_distance, 0, 0)>> ELSE <<>>)
    \o (IF withFillet THEN <<Call("fillet", "last", s.fillet_radius, 0, 0)>> ELSE <<>>)

StepRemoved(s, cs, part) ==
    /\ s.chamfer_distance = 0 =>
          ~HasOp(cs, "chamfer") /\ part = Pipeline(s, FALSE, HasOp(cs, "fillet"))
    /\ s.fillet_radius = 0 =>
          ~HasOp(cs, "fillet") /\ part = Pipeline(s, HasOp(cs, "chamfer"), FALSE)

\* C8: chamfer is invoked exactly when chamfer_distance > 0 and the bottom edge
\* group is non-empty, fillet exactly when fillet_radius > 0 and the top edge
\* group is non-empty; neither is ever called with a zero argument, and with a
\* zero distance (radius) the returned solid is the one of the pipeline without
\* that step.
C8_GuardedChamferFillet ==
    /\ spec_in # <<>> =>
        LET s == spec_in[1]
            wantChamfer == Num(s.chamfer_distance) /\ s.chamfer_distance > 0
                              /\ bottom_edges # <<>> /\ bottom_edges[1].n > 0
            wantFillet == Num(s.fillet_radius) /\ s.fillet_radius > 0
                              /\ top_edges # <<>> /\ top_edges[1].n > 0
            pastChamfer == chamfer_step # "pending" \/ "chamfer" \in raised
            pastFillet == fillet_step # "pending" \/ "fillet" \in raised
        IN  /\ HasOp(calls, "chamfer") <=> (pastChamfer /\ wantChamfer)
            /\ HasOp(calls, "fillet") <=> (pastFillet /\ wantFillet)
            /\ chamfer_step = "skipped" <=> (pastChamfer /\ ~wantChamfer)
            /\ fillet_step = "skipped" <=> (pastFillet /\ ~wantFillet)
    /\ \A i \in DOMAIN calls :
          calls[i].op \in {"chamfer", "fillet"} => Num(calls[i].x) /\ calls[i].x > 0
    /\ \A i \in DOMAIN results :
          StepRemoved(results[i].spec_in[1], results[i].calls, results[i].part)
    /\ part2 # <<>> => StepRemoved(spec_in[1], calls, part2)

\* A build with chamfer_distance = 0 and fillet_radius > 0 has returned: the
\* bottom edges were there, the chamfer was skipped and the fillet applied.
C8_Witness ==
    /\ pc = "c_idle"
    /\ Len(results) >= 1
    /\ spec_in[1].chamfer_distance = 0
    /\ bottom_edges # <<>> /\ bottom_edges[1].n > 0
    /\ chamfer_step = "skipped"
    /\ fillet_step = "applied"

IsPrefix(a, b) == Len(a) <= Len(b) /\ a = SubSeq(b, 1, Len(a))
InBuild ==
    pc \in {"mp_part", "mp_box", "mp_cut", "mp_bottom", "mp_chamfer", "mp_top",
            "mp_fillet", "mp_return"}

\* C9: two builds given equal spec values issue the same kernel operations with
\* the same arguments and return the same solid, whatever was built in between;
\* a running build follows an earlier build of an equal spec call for call; and
\* a build returns with the spec as it was given.
C9_BuildDeterministic ==
    /\ \A i, j \in DOMAIN results :
          results[i].spec_in = results[j].spec_in =>
              /\ results[i].calls = results[j].calls
              /\ results[i].part = results[j].part
    /\ \A i \in DOMAIN results :
          /\ results[i].spec_out = results[i].spec_in
          /\ (InBuild \/ pc = "aborted") /\ spec_in = results[i].spec_in =>
                IsPrefix(calls, results[i].calls)
          /\ pc = "aborted" => spec_in # results[i].spec_in

\* The same spec has been built twice, chamfered both times.
C9_Witness ==
    /\ Len(results) = 2
    /\ results[1].spec_in = results[2].spec_in
    /\ HasOp(results[2].calls, "chamfer")

\* The place of each call of the entry point in its order.
EventRank(e) ==
    CASE e = "setup_viewer" -> 1
      [] e = "Part2Spec" -> 2
      [] e = "make_part2" -> 3
      [] e = "viewer_running" -> 4
      [] e = "show" -> 5
      [] e = "mkdir" -> 6
      [] e = "export_part" -> 7
      [] e = "debug_show_locals" -> 8
      [] OTHER -> 0

\* C10: the entry point builds one part from the default values
\* (80, 60, 10, 22, 2, 5), then attempts the display, then exports, then dumps;
\* the part is shown only if a viewer session was detected, exported only once
\* the build has returned a solid, and the dump is attempted only once the
\* export has completed.
C10_EntryPointOrder ==
    mode = "main" =>
        /\ \A i, j \in DOMAIN events : i < j => 0 < EventRank(events[i])
                                              /\ EventRank(events[i]) < EventRank(events[j])
        /\ spec # <<>> =>
              spec = <<[length |-> 80, width |-> 60, thickness |-> 10,
                        hole_diameter |-> 22, chamfer_distance |-> 2, fillet_radius |-> 5]>>
        /\ InEvents("make_part2") => spec # <<>> /\ spec_in = spec
        /\ InEvents("show") <=> (running = "yes" /\ pc # "m_show")
        /\ InEvents("show") => part2 # <<>> /\ InEvents("viewer_running")
        /\ InEvents("mkdir") => part2 # <<>> /\ InEvents("viewer_running") /\ pc # "m_show"
        /\ InEvents("export_part") => part2 # <<>> /\ part2 = p /\ InEvents("mkdir")
        /\ InEvents("debug_show_locals") => exported /\ InEvents("export_part")
        /\ pc = "done" => InEvents("debug_show_locals")

\* The entry point ran to its end without a viewer session: no show, an export
\* and a dump.
C10_Witness ==
    /\ pc = "done"
    /\ running = "no"
    /\ exported
    /\ Len(events) = 7

====
